---- MODULE Spec2Model ----
(***************************************************************************)
(* A model of CFP_NER.py: the command line program that scrapes a 'call    *)
(* for papers' page, runs one of two named-entity recognisers over it and  *)
(* prints the sorted person names and affiliations.                        *)
(*                                                                         *)
(* Text is a sequence of character codes (65 is "A", 32 is " "), so that   *)
(* str.strip, str.join and the ordering used by list.sort are computed and *)
(* not assumed.  A URL is a sequence of pieces, each piece a string that   *)
(* the URL parser never cuts ("wikicfp.com", "/", "?", ...).               *)
(***************************************************************************)
EXTENDS Naturals, Sequences, FiniteSets

(* ------------------------------ bounds --------------------------------- *)

\* Longest sequence of triples handed to the merge loop, and longest text
\* (in words) handed to stanford_ner.
MaxLen == 3

\* Longest --url argument, in symbols of UrlSymbols.
MaxUrlLen == 4

\* Longest list of entities handed to the output step.
MaxEnts == 4

(* ------------------------------- text ---------------------------------- *)

\* ' ' as used by ' '+chunkseq[0].strip()
SP == 32

\* '*' as used by ' * '.join(...)
STAR == 42

\* The ASCII characters str.strip() removes.
Whitespace == {9, 10, 11, 12, 13, 28, 29, 30, 31, 32}

RECURSIVE LStrip(_)
LStrip(s) ==
    IF s # <<>> /\ Head(s) \in Whitespace THEN LStrip(Tail(s)) ELSE s

RECURSIVE RStrip(_)
RStrip(s) ==
    IF s # <<>> /\ s[Len(s)] \in Whitespace
    THEN RStrip(SubSeq(s, 1, Len(s) - 1))
    ELSE s

\* str.strip()
Strip(s) == RStrip(LStrip(s))

\* sep.join(list)
RECURSIVE Join(_, _)
Join(list, sep) ==
    IF list = <<>> THEN <<>>
    ELSE IF Len(list) = 1 THEN list[1]
    ELSE list[1] \o sep \o Join(Tail(list), sep)

\* a < b for Python strings: code point by code point, a proper prefix first.
RECURSIVE StrLess(_, _)
StrLess(a, b) ==
    IF b = <<>> THEN FALSE
    ELSE IF a = <<>> THEN TRUE
    ELSE IF Head(a) # Head(b) THEN Head(a) < Head(b)
    ELSE StrLess(Tail(a), Tail(b))

\* Insert as a sort that keeps one copy of equal texts would have it.
RECURSIVE M_Insert(_, _)
M_Insert(x, sorted) ==
    IF sorted = <<>> THEN <<x>>
    ELSE IF x = Head(sorted) THEN sorted
    ELSE IF StrLess(x, Head(sorted)) THEN <<x>> \o sorted
    ELSE <<Head(sorted)>> \o M_Insert(x, Tail(sorted))

\* list.sort() on strings: stable, ascending.
RECURSIVE Insert(_, _)
Insert(x, sorted) ==
    IF sorted = <<>> THEN <<x>>
    ELSE IF StrLess(x, Head(sorted)) THEN <<x>> \o sorted
    ELSE <<Head(sorted)>> \o Insert(x, Tail(sorted))

RECURSIVE Sort(_)
Sort(list) ==
    IF list = <<>> THEN <<>>
    ELSE Insert(list[Len(list)], Sort(SubSeq(list, 1, Len(list) - 1)))

\* All sequences over S of length at most n.
SeqsUpTo(S, n) == UNION {[1..k -> S] : k \in 0..n}

(* ------------------------------- URLs ---------------------------------- *)

\* What a --url argument is built from.
UrlSymbols == {"http://", "wikicfp.com", "www.", "evil.com", "/", "?", "#"}

Urls == SeqsUpTo(UrlSymbols, MaxUrlLen)

\* A symbol as the pieces the parser can cut it into.
Pieces(sym) == IF sym = "http://" THEN <<"http", ":", "/", "/">> ELSE <<sym>>

RECURSIVE Flatten(_)
Flatten(u) == IF u = <<>> THEN <<>> ELSE Pieces(Head(u)) \o Flatten(Tail(u))

\* Index of the first piece of s that lies in D, or Len(s)+1.
RECURSIVE FirstIn(_, _, _)
FirstIn(s, D, k) ==
    IF k > Len(s) THEN k
    ELSE IF s[k] \in D THEN k
    ELSE FirstIn(s, D, k + 1)

\* Pieces made only of characters a URL scheme may hold.
SchemePieces == {"http", "wikicfp.com", "www.", "evil.com"}

\* urllib.parse.urlparse on the pieces of a URL.
urlparse(u) ==
    LET s == Flatten(u)
        c == FirstIn(s, {":"}, 1)
        hasScheme == /\ c <= Len(s)
                     /\ c > 1
                     /\ \A k \in 1..(c - 1) : s[k] \in SchemePieces
        scheme == IF hasScheme THEN SubSeq(s, 1, c - 1) ELSE <<>>
        r1 == IF hasScheme THEN SubSeq(s, c + 1, Len(s)) ELSE s
        hasNetloc == Len(r1) >= 2 /\ r1[1] = "/" /\ r1[2] = "/"
        d == FirstIn(r1, {"/", "?", "#"}, 3)
        netloc == IF hasNetloc THEN SubSeq(r1, 3, d - 1) ELSE <<>>
        r2 == IF hasNetloc THEN SubSeq(r1, d, Len(r1)) ELSE r1
        f == FirstIn(r2, {"#"}, 1)
        fragment == SubSeq(r2, f + 1, Len(r2))
        r3 == SubSeq(r2, 1, f - 1)
        q == FirstIn(r3, {"?"}, 1)
        query == SubSeq(r3, q + 1, Len(r3))
        path == SubSeq(r3, 1, q - 1)
    IN  <<scheme, netloc, path, <<>>, query, fragment>>

\* UrlValid as a check that only asks for a host would have it.
M_UrlValid(parsed) == parsed[2] # <<>>

\* 'wikicfp.com' in url, for url the 6-tuple urlparse returns.
UrlValid(parsed) == \E k \in 1..Len(parsed) : parsed[k] = <<"wikicfp.com">>

\* ParseResult.geturl()
geturl(parsed) ==
    LET scheme == parsed[1]
        netloc == parsed[2]
        path == parsed[3]
        query == parsed[5]
        fragment == parsed[6]
        slashed == IF path # <<>> /\ path[1] # "/" THEN <<"/">> \o path ELSE path
        u1 == IF netloc # <<>>
                 \/ (scheme = <<"http">> /\ ~(Len(path) >= 2 /\ path[1] = "/" /\ path[2] = "/"))
              THEN <<"/", "/">> \o netloc \o slashed
              ELSE path
        u2 == IF scheme # <<>> THEN scheme \o <<":">> \o u1 ELSE u1
        u3 == IF query # <<>> THEN u2 \o <<"?">> \o query ELSE u2
    IN  IF fragment # <<>> THEN u3 \o <<"#">> \o fragment ELSE u3

(* ------------------------- the NER engines ---------------------------- *)

\* Words of a page ("A", "B").
Words == {<<65>>, <<66>>}

\* Labels of the Stanford tagger (a person, an organisation, anything else).
Labels == {"PERSON", "ORGANIZATION", "O"}

\* The IOB markers tree2conlltags writes for the chunk label 'Tag'.
Markers == {"B-Tag", "I-Tag", "O"}

\* A tag the chunk grammar <ORGANIZATION|PERSON.*> accepts: ORGANIZATION, or
\* any label that starts with PERSON (among Labels, PERSON alone).
TagMatches(tag) == tag = "ORGANIZATION" \/ tag \in {"PERSON"}

\* tree2conlltags(RegexpParser('Tag: {<ORGANIZATION|PERSON.*>+}').parse(tagged)):
\* every maximal run of accepted tags is one chunk, its first token B-Tag,
\* the others I-Tag, and a token outside every chunk is O.
IobOf(tagged, k) ==
    IF ~TagMatches(tagged[k][2]) THEN "O"
    ELSE IF k > 1 /\ TagMatches(tagged[k - 1][2]) THEN "I-Tag"
    ELSE "B-Tag"

ChunkTags(tagged) ==
    [k \in 1..Len(tagged) |-> <<tagged[k][1], tagged[k][2], IobOf(tagged, k)>>]

\* The (word, tag) pairs a sequence of triples was made from.
Untag(chunks) == [k \in 1..Len(chunks) |-> <<chunks[k][1], chunks[k][2]>>]

\* Normalize without the conversion.
M_Normalize(ent_type) == ent_type

\* 'ORGANIZATION' category given by Stanford NER is converted to 'ORG'.
Normalize(ent_type) == IF ent_type = "ORGANIZATION" THEN "ORG" ELSE ent_type

\* Labels and span texts of spaCy's entities ("A", " B": a span is stripped).
SpacyLabels == {"PERSON", "ORG", "GPE"}
SpanTexts == {<<65>>, <<SP, 66>>}

\* Longest tuple of entities spaCy returns.
MaxSpans == 2

\* spacy_ner's filter of doc.ents.
RECURSIVE SpacyFilter(_)
SpacyFilter(ents) ==
    IF ents = <<>> THEN <<>>
    ELSE IF Head(ents)[2] = "ORG" \/ Head(ents)[2] = "PERSON"
         THEN <<  <<Strip(Head(ents)[1]), Head(ents)[2]>>  >> \o SpacyFilter(Tail(ents))
         ELSE SpacyFilter(Tail(ents))

\* The texts of the entities of one category, in the order of the list.
RECURSIVE TextsOf(_, _)
TextsOf(entities, category) ==
    IF entities = <<>> THEN <<>>
    ELSE IF Head(entities)[2] = category
         THEN <<Head(entities)[1]>> \o TextsOf(Tail(entities), category)
         ELSE TextsOf(Tail(entities), category)

\* The 'call for papers' sections the site serves, as their words.
Pages == {<<>>, << <<65>> >>, << <<65>>, <<66>> >>}

\* Values of --model the command line is tried with ("absent": not given).
ModelArgs == {"absent", "m1", "m2", "m3"}

\* print('Please enter a valid URL'), as an entry of stdout.
\* choices=['m1', 'm2'], default='m1'
ModelChoices == {"m1", "m2"}
DefaultModel == "m1"

\* UsesSpacy with the two branches of the dispatch swapped.
M_UsesSpacy(model) == model = "m2"

\* if args.model == 'm1'
UsesSpacy(model) == model = "m1"

ErrorLine == <<"Please enter a valid URL", <<>>>>

(* ------------------------------ state ---------------------------------- *)

VARIABLES
    pc,             \* where the program is
    argv_model,     \* --model as typed on the command line
    args_url,       \* args.url
    args_model,     \* args.model
    url,            \* url = urlparse(args.url)
    html,           \* what requests.get(url) answered
    cfp,            \* the scraped text, as its words
    ne_tokenchunks, \* st.tag(word_tokenize(cfp))
    ne_chunks,      \* the (word, tag, marker) triples
    i,              \* position of the outer loop of the merge
    j,              \* position of the inner loop of the merge
    ent,            \* the entity text being built
    ent_type,       \* its category
    members,        \* positions whose word went into ent
    result,         \* the entities found
    spans,          \* for each entity of result, the positions merged into it
    outerVisits,    \* how often the outer loop looked at each position
    innerVisits,    \* how often the inner loop looked at each position
    names,
    affiliations,
    stdout,         \* what was printed
    exitStatus,     \* "running", or the status the process ended with
    httpRequests,   \* the URLs requests.get was sent to
    spacyCalls,     \* calls of spacy_ner
    stanfordCalls   \* calls of stanford_ner

vars == <<pc, argv_model, args_url, args_model, url, html, cfp, ne_tokenchunks, ne_chunks, i, j,
          ent, ent_type, members, result, spans, outerVisits, innerVisits,
          names, affiliations, stdout, exitStatus, httpRequests, spacyCalls,
          stanfordCalls>>

mergeVars == <<ne_chunks, i, j, ent, ent_type, members, result, spans,
               outerVisits, innerVisits>>
argVars == <<argv_model, args_url, args_model, url, html>>
outVars == <<names, affiliations, stdout, exitStatus>>
callVars == <<httpRequests, spacyCalls, stanfordCalls>>

Zeros(n) == [k \in 1..n |-> 0]

\* The program before its first statement.
Init ==
    /\ pc = "parse_args"
    /\ argv_model = "" /\ args_url = <<>> /\ args_model = "" /\ url = <<>>
    /\ html = "" /\ cfp = <<>> /\ ne_tokenchunks = <<>> /\ ne_chunks = <<>>
    /\ i = 0 /\ j = 0 /\ ent = <<>> /\ ent_type = "" /\ members = <<>>
    /\ result = <<>> /\ spans = <<>> /\ outerVisits = <<>> /\ innerVisits = <<>>
    /\ names = <<>> /\ affiliations = <<>> /\ stdout = <<>>
    /\ exitStatus = "running"
    /\ httpRequests = <<>> /\ spacyCalls = 0 /\ stanfordCalls = 0

(* ----------------------------- __main__ -------------------------------- *)

\* Step 1: parser.parse_args().  A --model outside choices is an argparse
\* error: usage on stderr, status 2.  A missing --model is 'm1'.
ParseArgs ==
    /\ pc = "parse_args"
    /\ \E u \in Urls, m \in ModelArgs :
          /\ argv_model' = m
          /\ IF m \notin ModelChoices \cup {"absent"}
             THEN /\ pc' = "exit" /\ exitStatus' = 2
                  /\ UNCHANGED <<args_url, args_model>>
             ELSE /\ args_url' = u
                  /\ args_model' = (IF m = "absent" THEN DefaultModel ELSE m)
                  /\ pc' = "check_url"
                  /\ UNCHANGED exitStatus
    /\ UNCHANGED <<url, html, cfp, ne_tokenchunks, mergeVars, names, affiliations,
                   stdout, callVars>>

\* Step 2, the URL check: url = urlparse(args.url); 'wikicfp.com' not in url.
CheckUrl ==
    /\ pc = "check_url"
    /\ url' = urlparse(args_url)
    /\ IF ~UrlValid(url')
       THEN /\ stdout' = Append(stdout, ErrorLine)
            /\ exitStatus' = 0
            /\ pc' = "exit"
       ELSE /\ pc' = "get_cfp"
            /\ UNCHANGED <<stdout, exitStatus>>
    /\ UNCHANGED <<argv_model, args_url, args_model, html, cfp, ne_tokenchunks,
                   mergeVars, names, affiliations, callVars>>

\* requests.get sends a request only for an http URL that names a host; for
\* any other it raises before anything is sent.
Requestable(parsed) == parsed[1] = <<"http">> /\ parsed[2] # <<>>

\* What the server may answer: nothing (the connection fails), a page
\* without a <div class="cfp">, or a page with one.
Responses == {"failure", "no_cfp", "cfp"}

\* cfp = get_cfp(url.geturl()).  An AttributeError (soup.find returned None)
\* prints the error line and exits with 0; any other exception is not caught
\* and ends the process with a traceback, status 1.
GetCfp ==
    /\ pc = "get_cfp"
    /\ IF ~Requestable(url)
       THEN /\ pc' = "exit" /\ exitStatus' = 1
            /\ UNCHANGED <<html, cfp, stdout, httpRequests>>
       ELSE /\ httpRequests' = Append(httpRequests, geturl(url))
            /\ \E r \in Responses :
                  CASE r = "failure" ->
                         /\ pc' = "exit" /\ exitStatus' = 1
                         /\ UNCHANGED <<html, cfp, stdout>>
                    [] r = "no_cfp" ->
                         /\ html' = r
                         /\ stdout' = Append(stdout, ErrorLine)
                         /\ pc' = "exit" /\ exitStatus' = 0
                         /\ UNCHANGED cfp
                    [] r = "cfp" ->
                         /\ html' = r
                         /\ \E page \in Pages : cfp' = page
                         /\ pc' = "ner"
                         /\ UNCHANGED <<stdout, exitStatus>>
    /\ UNCHANGED <<argv_model, args_url, args_model, url, ne_tokenchunks,
                   mergeVars, names, affiliations, spacyCalls, stanfordCalls>>

\* Step 3 with args.model == 'm1': result = spacy_ner(cfp).  The entities
\* nlp(cfp).ents are the engine's choice.
SpacyNer ==
    /\ pc = "ner"
    /\ UsesSpacy(args_model)
    /\ spacyCalls' = spacyCalls + 1
    /\ \E ents \in SeqsUpTo(SpanTexts \X SpacyLabels, MaxSpans) :
          result' = SpacyFilter(ents)
    /\ pc' = "output"
    /\ UNCHANGED <<argVars, cfp, ne_tokenchunks, ne_chunks, i, j, ent, ent_type,
                   members, spans, outerVisits, innerVisits, outVars,
                   httpRequests, stanfordCalls>>

\* Step 3 otherwise: stanford_ner(cfp) is entered and the tagger gives every
\* token of the text one label, the engine's choice.
StanfordTag ==
    /\ pc = "ner"
    /\ ~UsesSpacy(args_model)
    /\ stanfordCalls' = stanfordCalls + 1
    /\ \E tags \in [1..Len(cfp) -> Labels] :
          ne_tokenchunks' = [k \in 1..Len(cfp) |-> <<cfp[k], tags[k]>>]
    /\ pc' = "chunk"
    /\ UNCHANGED <<argVars, cfp, mergeVars, outVars, httpRequests, spacyCalls>>

\* ne_chunks = tree2conlltags(ne_parser.parse(ne_tokenchunks)); result = []
Chunk ==
    /\ pc = "chunk"
    /\ ne_chunks' = ChunkTags(ne_tokenchunks)
    /\ result' = <<>> /\ spans' = <<>>
    /\ i' = 1
    /\ outerVisits' = Zeros(Len(ne_tokenchunks))
    /\ innerVisits' = Zeros(Len(ne_tokenchunks))
    /\ pc' = "merge_outer"
    /\ UNCHANGED <<argVars, cfp, ne_tokenchunks, j, ent, ent_type, members,
                   outVars, callVars>>

(* ------------------- stanford_ner: the merge loop ---------------------- *)

Bump(visits, k) == [visits EXCEPT ![k] = @ + 1]

\* ent = chunk[0].strip()
StartEnt(chunk) == Strip(chunk[1])

\* ExtendEnt putting the new word in front.
M_ExtendEnt(e, chunkseq) == Strip(chunkseq[1]) \o <<SP>> \o e

\* ent += ' '+chunkseq[0].strip()
ExtendEnt(e, chunkseq) == e \o <<SP>> \o Strip(chunkseq[1])

\* IsBegin opening an entity at every marker of a chunk.
M_IsBegin(chunk) == chunk[3] # "O"

\* if chunk[2] == 'B-Tag'
IsBegin(chunk) == chunk[3] = "B-Tag"

\* if chunkseq[2] == 'I-Tag'
IsInside(chunkseq) == chunkseq[3] = "I-Tag"

\* NextOuter resuming the outer loop where the inner loop stopped.
M_NextOuter(outer, inner) == IF inner > outer THEN inner ELSE outer + 1

\* AppendEntity putting the new entity in front.
M_AppendEntity(res, entity) == <<entity>> \o res

\* enumerate(ne_chunks) goes on at the next position, wherever the inner
\* loop (at position inner) stopped.
NextOuter(outer, inner) == outer + 1

\* result.append([ent, ent_type])
AppendEntity(res, entity) == Append(res, entity)

\* One turn of  for i, chunk in enumerate(ne_chunks):  a B-Tag opens an
\* entity and starts the inner loop at i+1, anything else is passed over.
OuterStep ==
    /\ pc = "merge_outer"
    /\ i <= Len(ne_chunks)
    /\ outerVisits' = Bump(outerVisits, i)
    /\ IF IsBegin(ne_chunks[i])
       THEN /\ ent_type' = ne_chunks[i][2]
            /\ ent' = StartEnt(ne_chunks[i])
            /\ members' = <<i>>
            /\ j' = i + 1
            /\ pc' = "merge_inner"
            /\ UNCHANGED i
       ELSE /\ i' = NextOuter(i, i)
            /\ UNCHANGED <<ent_type, ent, members, j, pc>>
    /\ UNCHANGED <<argVars, cfp, ne_tokenchunks, ne_chunks, result, spans,
                   innerVisits, outVars, callVars>>

\* One turn of  for chunkseq in ne_chunks[i+1:]:  an I-Tag is appended, any
\* other marker breaks out of the loop.
InnerStep ==
    /\ pc = "merge_inner"
    /\ j <= Len(ne_chunks)
    /\ innerVisits' = Bump(innerVisits, j)
    /\ IF IsInside(ne_chunks[j])
       THEN /\ ent' = ExtendEnt(ent, ne_chunks[j])
            /\ members' = Append(members, j)
            /\ j' = j + 1
            /\ UNCHANGED pc
       ELSE /\ pc' = "merge_emit"
            /\ UNCHANGED <<ent, members, j>>
    /\ UNCHANGED <<argVars, cfp, ne_tokenchunks, ne_chunks, i, ent_type, result,
                   spans, outerVisits, outVars, callVars>>

\* The inner loop is over (by break, or at the end of the list): the
\* category is normalised and [ent, ent_type] appended to result.
Emit ==
    /\ \/ pc = "merge_emit"
       \/ pc = "merge_inner" /\ j > Len(ne_chunks)
    /\ ent_type' = Normalize(ent_type)
    /\ result' = AppendEntity(result, <<ent, ent_type'>>)
    /\ spans' = Append(spans, members)
    /\ i' = NextOuter(i, j)
    /\ pc' = "merge_outer"
    /\ UNCHANGED <<argVars, cfp, ne_tokenchunks, ne_chunks, j, ent, members,
                   outerVisits, innerVisits, outVars, callVars>>

\* return result
MergeReturn ==
    /\ pc = "merge_outer"
    /\ i > Len(ne_chunks)
    /\ pc' = "output"
    /\ UNCHANGED <<argVars, cfp, ne_tokenchunks, mergeVars, outVars, callVars>>

(* ------------------------ Step 4: the output --------------------------- *)

\* for entity in result: 'ORG' goes to affiliations, 'PERSON' to names.
Partition ==
    /\ pc = "output"
    /\ names' = TextsOf(result, "PERSON")
    /\ affiliations' = TextsOf(result, "ORG")
    /\ pc' = "sort"
    /\ UNCHANGED <<argVars, cfp, ne_tokenchunks, mergeVars, stdout, exitStatus,
                   callVars>>

\* print('***Names***\n', ' * '.join(names), '\n'), as an entry of stdout.
Block(title, list) == <<title, Join(list, <<SP, STAR, SP>>)>>

\* names.sort(); affiliations.sort(); the two prints; the program ends.
SortAndPrint ==
    /\ pc = "sort"
    /\ names' = Sort(names)
    /\ affiliations' = Sort(affiliations)
    /\ stdout' = stdout \o << Block("***Names***", names'),
                              Block("***Affiliations***", affiliations') >>
    /\ exitStatus' = 0
    /\ pc' = "done"
    /\ UNCHANGED <<argVars, cfp, ne_tokenchunks, mergeVars, callVars>>

(* --------------------------- specifications ---------------------------- *)

\* The whole program, from the command line on.
Next ==
    \/ ParseArgs \/ CheckUrl \/ GetCfp \/ SpacyNer \/ StanfordTag \/ Chunk
    \/ OuterStep \/ InnerStep \/ Emit \/ MergeReturn \/ Partition \/ SortAndPrint

Spec == Init /\ [][Next]_vars

\* The run  --url http://wikicfp.com --model <m>  after get_cfp returned.
Fetched(m) ==
    /\ args_url = <<"http://", "wikicfp.com">>
    /\ argv_model = m
    /\ args_model = m
    /\ html = "cfp"
    /\ url = urlparse(args_url)
    /\ httpRequests = <<geturl(url)>>
    /\ names = <<>> /\ affiliations = <<>> /\ stdout = <<>>
    /\ exitStatus = "running"

\* stanford_ner on any text of at most MaxLen words.
InitPathB ==
    /\ Fetched("m2")
    /\ pc = "ner"
    /\ cfp \in SeqsUpTo(Words, MaxLen)
    /\ ne_tokenchunks = <<>> /\ ne_chunks = <<>>
    /\ i = 0 /\ j = 0 /\ ent = <<>> /\ ent_type = "" /\ members = <<>>
    /\ result = <<>> /\ spans = <<>> /\ outerVisits = <<>> /\ innerVisits = <<>>
    /\ spacyCalls = 0 /\ stanfordCalls = 0

NextPathB ==
    \/ StanfordTag \/ Chunk \/ OuterStep \/ InnerStep \/ Emit \/ MergeReturn
    \/ Partition \/ SortAndPrint

SpecPathB == InitPathB /\ [][NextPathB]_vars

\* The merge loop on any sequence of at most MaxLen triples, whatever its
\* markers (also sequences no chunk grammar produces).
InitMerge ==
    /\ Fetched("m2")
    /\ pc = "merge_outer"
    /\ ne_chunks \in SeqsUpTo(Words \X Labels \X Markers, MaxLen)
    /\ ne_tokenchunks = Untag(ne_chunks)
    /\ cfp = [k \in 1..Len(ne_chunks) |-> ne_chunks[k][1]]
    /\ i = 1 /\ j = 0 /\ ent = <<>> /\ ent_type = "" /\ members = <<>>
    /\ result = <<>> /\ spans = <<>>
    /\ outerVisits = Zeros(Len(ne_chunks))
    /\ innerVisits = Zeros(Len(ne_chunks))
    /\ spacyCalls = 0 /\ stanfordCalls = 1

NextMerge ==
    \/ OuterStep \/ InnerStep \/ Emit \/ MergeReturn \/ Partition \/ SortAndPrint

SpecMerge == InitMerge /\ [][NextMerge]_vars

\* Texts and categories of the entities the output step is tried with
\* ("A", "AB", "B"; a category that is neither PERSON nor ORG).
EntityTexts == {<<65>>, <<65, 66>>, <<66>>}
Categories == {"PERSON", "ORG", "LOCATION"}

\* The output step on any list of at most MaxEnts entities.
InitOutput ==
    /\ Fetched("m1")
    /\ pc = "output"
    /\ result \in SeqsUpTo(EntityTexts \X Categories, MaxEnts)
    /\ cfp = <<>> /\ ne_tokenchunks = <<>> /\ ne_chunks = <<>>
    /\ i = 0 /\ j = 0 /\ ent = <<>> /\ ent_type = "" /\ members = <<>>
    /\ spans = <<>> /\ outerVisits = <<>> /\ innerVisits = <<>>
    /\ spacyCalls = 1 /\ stanfordCalls = 0

NextOutput == Partition \/ SortAndPrint

SpecOutput == InitOutput /\ [][NextOutput]_vars

(* ------------------------------ properties ----------------------------- *)

\* The merge loop has returned.
MergeDone == pc \in {"output", "sort", "done"} /\ stanfordCalls = 1

\* The positions of ne_chunks that carry marker m.
Marked(m) == {k \in 1..Len(ne_chunks) : ne_chunks[k][3] = m}

\* The k-th smallest element of a set of positions.
RECURSIVE Kth(_, _)
Kth(S, k) ==
    LET least == CHOOSE x \in S : \A y \in S : x <= y
    IN  IF k = 1 THEN least ELSE Kth(S \ {least}, k - 1)

\* The last position of the run of inside markers that follows position b.
RunEnd(b) ==
    CHOOSE e \in b..Len(ne_chunks) :
        /\ \A p \in (b + 1)..e : ne_chunks[p][3] = "I-Tag"
        /\ e = Len(ne_chunks) \/ ne_chunks[e + 1][3] # "I-Tag"

\* The words at positions b..e, a single space between neighbours.
RECURSIVE Spaced(_, _)
Spaced(b, e) ==
    IF b = e THEN ne_chunks[b][1]
    ELSE Spaced(b, e - 1) \o <<SP>> \o ne_chunks[e][1]

\* C1: once the merge loop has returned, result holds as many entities as
\* there are B-Tag triples in its input: none for an empty input or an input
\* without B-Tag (lone I-Tags included), one for a B-Tag nothing follows.
C1_CountEqualsBegins ==
    MergeDone => Len(result) = Cardinality(Marked("B-Tag"))

\* C1 witness: an input with a lone I-Tag ahead of two B-Tags, the second
\* followed by nothing, has been merged into two entities.
C1_Witness ==
    /\ MergeDone
    /\ Len(ne_chunks) = 3
    /\ ne_chunks[1][3] = "I-Tag" /\ ne_chunks[2][3] = "B-Tag"
    /\ ne_chunks[3][3] = "B-Tag"
    /\ Len(result) = 2

\* C2: for every B-Tag at position b there is an emitted entity that starts
\* at b, is made of exactly the positions b..e, e the end of the run of
\* I-Tags after b, and whose text is the words at b..e joined by one space.
C2_TextIsContiguousRun ==
    MergeDone =>
        \A b \in Marked("B-Tag") :
            \E k \in 1..Len(result) :
                /\ k <= Len(spans)
                /\ spans[k] = [n \in 1..(RunEnd(b) - b + 1) |-> b + n - 1]
                /\ result[k][1] = Spaced(b, RunEnd(b))

\* C2 witness: an entity of two different words was merged, and a token that
\* is not inside follows it.
C2_Witness ==
    /\ MergeDone
    /\ \E k \in 1..Len(spans) :
          /\ Len(spans[k]) = 2
          /\ ne_chunks[spans[k][1]][1] # ne_chunks[spans[k][2]][1]
          /\ spans[k][2] < Len(ne_chunks)

\* C3: on Path B (chunk grammar, then merge loop) all tokens merged into one
\* entity carry the same tag.
C3_OneTagPerEntity ==
    MergeDone =>
        \A k \in 1..Len(spans) :
            \A p \in 1..Len(spans[k]) :
                ne_chunks[spans[k][p]][2] = ne_chunks[spans[k][1]][2]

\* A sequence is sorted ascending: each text is a prefix of the next, or
\* smaller at the first place where the two differ.
Ascending(list) ==
    \A k \in 1..(Len(list) - 1) :
        LET a == list[k]
            b == list[k + 1]
        IN  \/ Len(a) <= Len(b) /\ SubSeq(b, 1, Len(a)) = a
            \/ \E n \in 1..Len(a) :
                  /\ n <= Len(b)
                  /\ SubSeq(a, 1, n - 1) = SubSeq(b, 1, n - 1)
                  /\ a[n] < b[n]

\* How often text t occurs in a list of texts.
Count(list, t) == Cardinality({k \in 1..Len(list) : list[k] = t})

\* How often the entity (t, category) occurs in result.
CountIn(t, category) ==
    Cardinality({k \in 1..Len(result) : result[k] = <<t, category>>})

AllTexts == {result[k][1] : k \in 1..Len(result)}
              \cup {names[k] : k \in 1..Len(names)}
              \cup {affiliations[k] : k \in 1..Len(affiliations)}

\* C4: when the program is done, names is ascending and holds every text as
\* often as result holds it with PERSON, affiliations is ascending and holds
\* every text as often as result holds it with ORG; so an entity of another
\* category is in neither, and nothing is deduplicated.
C4_PartitionSorted ==
    pc = "done" =>
        /\ Ascending(names)
        /\ Ascending(affiliations)
        /\ \A t \in AllTexts :
              /\ Count(names, t) = CountIn(t, "PERSON")
              /\ Count(affiliations, t) = CountIn(t, "ORG")

\* C4 witness: the persons came out of order and one of them twice, and an
\* entity that is neither PERSON nor ORG was dropped.
C4_Witness ==
    /\ pc = "done"
    /\ names # TextsOf(result, "PERSON")
    /\ \E t \in AllTexts : Count(names, t) = 2
    /\ Len(names) + Len(affiliations) < Len(result)

\* The URL check has been made and the URL failed it: none of the six
\* components of url is 'wikicfp.com'.
CheckFailed == Len(url) = 6 /\ \A k \in 1..6 : url[k] # <<"wikicfp.com">>

\* A names or affiliations block is on stdout.
BlockPrinted ==
    \E k \in 1..Len(stdout) :
        stdout[k][1] \in {"***Names***", "***Affiliations***"}

\* C5: in a run whose URL failed the check, or whose page had no 'cfp'
\* section, the program has printed the error line and nothing else, has
\* exited with status 0, has called neither engine and printed no block.
C5_ErrorExit ==
    (CheckFailed \/ html = "no_cfp") =>
        /\ pc = "exit"
        /\ exitStatus = 0
        /\ stdout = <<ErrorLine>>
        /\ spacyCalls = 0 /\ stanfordCalls = 0
        /\ ~BlockPrinted

\* C5 witness: a URL passed the check, the page was fetched and had no 'cfp'
\* section, and the program has exited.
C5_Witness ==
    /\ html = "no_cfp"
    /\ Len(httpRequests) = 1
    /\ ~CheckFailed
    /\ pc = "exit"

\* The triples are those the chunk grammar makes of their (word, tag) pairs.
WellChunked == ne_chunks = ChunkTags(Untag(ne_chunks))

\* The input is a B-Tag and an I-Tag of an organisation, then a token
\* outside, as in [("Acme", org, begin), ("Corp", org, inside), ("said", other, outside)].
AcmeShape ==
    /\ Len(ne_chunks) = 3
    /\ ne_chunks[1][2] = "ORGANIZATION" /\ ne_chunks[1][3] = "B-Tag"
    /\ ne_chunks[2][2] = "ORGANIZATION" /\ ne_chunks[2][3] = "I-Tag"
    /\ ne_chunks[3][2] = "O" /\ ne_chunks[3][3] = "O"

\* C6: the category of every emitted entity is the tag of its begin token,
\* with ORGANIZATION written ORG and any other tag as it is; the Acme input
\* gives the one entity ("Acme Corp", ORG); and when the markers are those
\* of the chunk grammar every category is PERSON or ORG.
C6_CategoryOfBeginToken ==
    MergeDone =>
        /\ Len(spans) = Len(result)
        /\ \A k \in 1..Len(result) :
              LET tag == ne_chunks[spans[k][1]][2]
              IN  /\ ne_chunks[spans[k][1]][3] = "B-Tag"
                  /\ tag = "ORGANIZATION" => result[k][2] = "ORG"
                  /\ tag # "ORGANIZATION" => result[k][2] = tag
        /\ AcmeShape =>
              result = << <<ne_chunks[1][1] \o <<SP>> \o ne_chunks[2][1], "ORG">> >>
        /\ WellChunked =>
              \A k \in 1..Len(result) : result[k][2] \in {"PERSON", "ORG"}

\* C6 witness: the Acme input has been merged.
C6_Witness == MergeDone /\ AcmeShape /\ WellChunked /\ Len(result) = 1

\* The NER step has been reached.
NerReached ==
    pc \in {"chunk", "merge_outer", "merge_inner", "merge_emit", "output",
            "sort", "done"}

\* C7: a run that has reached the NER step has called exactly one engine,
\* once: spacy_ner when --model is m1 or absent, stanford_ner when it is m2;
\* a run that has not has called none.
C7_OneEngine ==
    /\ NerReached =>
          /\ argv_model \in {"m1", "absent"} =>
                spacyCalls = 1 /\ stanfordCalls = 0
          /\ argv_model = "m2" => spacyCalls = 0 /\ stanfordCalls = 1
          /\ argv_model \in {"m1", "m2", "absent"}
    /\ ~NerReached => spacyCalls = 0 /\ stanfordCalls = 0

\* C7 witness: a run without --model has finished, with spaCy called once.
C7_Witness == pc = "done" /\ argv_model = "absent" /\ spacyCalls = 1

\* C8: the k-th emitted entity is the one the k-th B-Tag started, so the
\* begin positions of the entities of result increase strictly.
C8_DocumentOrder ==
    MergeDone =>
        /\ Len(spans) = Len(result)
        /\ Len(result) = Cardinality(Marked("B-Tag"))
        /\ \A k \in 1..Len(result) :
              /\ spans[k][1] = Kth(Marked("B-Tag"), k)
              /\ result[k][1] = Spaced(spans[k][1], RunEnd(spans[k][1]))
        /\ \A k \in 1..Len(result), l \in 1..Len(result) :
              k < l => spans[k][1] < spans[l][1]

\* C8 witness: two entities of different text were emitted.
C8_Witness ==
    /\ MergeDone
    /\ Len(result) = 2
    /\ result[1][1] # result[2][1]

\* C9 as stated: when the merge loop has returned, every position was looked
\* at exactly once, by the inner loop or by the outer loop and not by both.
C9_VisitedOnce ==
    MergeDone =>
        \A p \in 1..Len(ne_chunks) : outerVisits[p] + innerVisits[p] = 1

\* Position p follows a B-Tag with nothing but I-Tags in between.
InLookahead(p) ==
    \E b \in Marked("B-Tag") :
        b < p /\ \A q \in (b + 1)..(p - 1) : ne_chunks[q][3] = "I-Tag"

\* C9 amended: the outer loop looks at every position exactly once; the
\* inner loop looks, once more, at exactly the positions that follow a B-Tag
\* up to and including the first marker that is not I-Tag, and at no other.
C9_OuterOnceInnerAgain ==
    MergeDone =>
        \A p \in 1..Len(ne_chunks) :
            /\ outerVisits[p] = 1
            /\ innerVisits[p] = (IF InLookahead(p) THEN 1 ELSE 0)

\* C9 witness: a position was looked at by both loops.
C9_Witness ==
    /\ MergeDone
    /\ \E p \in 1..Len(ne_chunks) : outerVisits[p] = 1 /\ innerVisits[p] = 1

\* The host of a parsed URL is wikicfp.com or a subdomain of it.
OnSite(parsed) ==
    \/ parsed[2] = <<"wikicfp.com">>
    \/ parsed[2] = <<"www.", "wikicfp.com">>

\* A parsed URL with the http scheme and a host made of name pieces.
HttpWithHost(parsed) ==
    /\ parsed[1] = <<"http">>
    /\ parsed[2] # <<>>
    /\ \A k \in 1..Len(parsed[2]) :
          parsed[2][k] \in {"wikicfp.com", "www.", "evil.com"}

\* The URL check has rejected the URL: error line, status 0, nothing sent.
Rejected ==
    /\ pc = "exit" /\ exitStatus = 0
    /\ stdout = <<ErrorLine>> /\ httpRequests = <<>>

\* C10: once the URL check is made on an http URL, a URL whose host is
\* wikicfp.com or a subdomain of it has passed, any other is rejected with
\* the error line and status 0, and a request is only ever sent for a URL
\* whose host is on wikicfp.com.
C10_GateIsSiteCheck ==
    (Len(url) = 6 /\ HttpWithHost(url)) =>
        /\ OnSite(url) => ~Rejected
        /\ ~OnSite(url) => Rejected
        /\ httpRequests # <<>> => OnSite(url)

====
